---------------------------- MODULE Spec2Model ----------------------------
(***************************************************************************)
(* Model of chatdollkit/models.py: the AnimatedVoiceRequest frame builder, *)
(* its delegation through Response, and ApiResponseBase.from_exception.    *)
(*                                                                         *)
(* Python objects live in heaps keyed by references, so that two fields    *)
(* holding the same container would be visible as aliasing.  The models    *)
(* are pydantic (v1) models: a field default is copied for every instance  *)
(* and keyword arguments are validated against the declared field type.    *)
(***************************************************************************)
EXTENDS Integers, Sequences, FiniteSets, TLC

VARIABLES
    avrs,        \* AnimatedVoiceRequest objects: id -> fields
    frameLists,  \* AnimatedVoices list objects: ref -> sequence of frames
    voiceLists,  \* AnimatedVoice.Voices list objects: ref -> sequence of Voice
    animDicts,   \* AnimatedVoice.Animations dict objects: ref -> (layer -> sequence)
    faceLists,   \* AnimatedVoice.Faces list objects: ref -> sequence of FaceExpression
    responses,   \* Response objects, in construction order
    last,        \* the last call: operation, arguments, target, outcome, heap before
    calls,       \* number of builder calls made so far
    envelope,    \* the last result of ApiResponseBase.from_exception
    words        \* the last call of WordNode.from_janome: its tokens and its result

vars == <<avrs, frameLists, voiceLists, animDicts, faceLists, responses, last, calls, envelope,
          words>>

---------------------------------------------------------------------------
(* Bounds of the model. *)

\* builder calls made on the one builder of Spec
MaxCalls == 3
\* tokens passed to one call of from_janome
MaxTokens == 2
\* builder calls made in one behaviour of SpecShared
MaxSharedCalls == 2
\* AnimatedVoiceRequest objects constructed in one behaviour of SpecShared
MaxAvrs == 2
\* Response objects constructed in one behaviour of SpecShared
MaxResponses == 2

---------------------------------------------------------------------------
(* Python values.  Every value carries its type tag, so that a value of    *)
(* the wrong type can be passed to an operation as Python allows.          *)

None == [t |-> "none", s |-> "", n |-> 0]
Str(x) == [t |-> "str", s |-> x, n |-> 0]
Num(x) == [t |-> "num", s |-> "", n |-> x]
Bool(b) == [t |-> "bool", s |-> "", n |-> IF b THEN 1 ELSE 0]
\* a TTSConfiguration instance with the given Name
Cfg(x) == [t |-> "cfg", s |-> x, n |-> 0]
\* an argument the caller leaves out: the signature's default applies
Omitted == [t |-> "omitted", s |-> "", n |-> 0]

Arg(v, default) == IF v = Omitted THEN default ELSE v

\* Python truth value, as used by `x or y`
Truthy(v) ==
    CASE v.t = "none" -> FALSE
      [] v.t = "str"  -> v.s # ""
      [] v.t = "num"  -> v.n # 0
      [] v.t = "bool" -> v.n = 1
      [] OTHER        -> TRUE

\* Python `x or y`
PyOr(x, y) == IF Truthy(x) THEN x ELSE y

VoiceSource == [Local |-> Num(0), Web |-> Num(1), TTS |-> Num(2)]

---------------------------------------------------------------------------
(* pydantic field validation: [ok, v].  A str field takes a str and the    *)
(* text of a number, a float field takes a number or a numeric text, a     *)
(* bool field takes a bool or 0/1; None is taken by Optional fields only.  *)

Valid(v) == [ok |-> TRUE, v |-> v]
Invalid == [ok |-> FALSE, v |-> None]

NumText(n) ==
    CASE n = 0  -> "0"
      [] n = 1  -> "1"
      [] n = -1 -> "-1"
      [] n = 7  -> "7"
      [] n = 1001 -> "1001"
      [] OTHER  -> "n"

ValidateStr(v) ==
    CASE v.t = "str"  -> Valid(v)
      [] v.t = "num"  -> Valid(Str(NumText(v.n)))
      [] v.t = "bool" -> Valid(Str(IF v.n = 1 THEN "True" ELSE "False"))
      [] OTHER        -> Invalid

\* mutant: a float field that takes no negative number
ValidateFloatNonNegative(v) ==
    IF v.t = "num" /\ v.n >= 0 THEN Valid(v) ELSE Invalid

ValidateFloat(v) ==
    CASE v.t = "num"  -> Valid(v)
      [] v.t = "bool" -> Valid(Num(v.n))
      [] v.t = "str" /\ v.s \in {"0", "1", "-1", "7", "1001"} ->
            Valid(Num(CHOOSE n \in {0, 1, -1, 7, 1001} : NumText(n) = v.s))
      [] OTHER        -> Invalid

ValidateBool(v) ==
    CASE v.t = "bool" -> Valid(v)
      [] v.t = "num" /\ v.n \in {0, 1} -> Valid(Bool(v.n = 1))
      [] v.t = "str" /\ v.s \in {"true", "1"} -> Valid(Bool(TRUE))
      [] v.t = "str" /\ v.s \in {"false", "0"} -> Valid(Bool(FALSE))
      [] OTHER        -> Invalid

ValidateInt(v) ==
    CASE v.t = "num"  -> Valid(v)
      [] v.t = "bool" -> Valid(Num(v.n))
      [] OTHER        -> Invalid

ValidateTTSConfig(v) == IF v.t = "cfg" THEN Valid(v) ELSE Invalid

\* Optional[T]: None is kept, anything else goes through T's validation
Optional(v, validated) == IF v = None THEN Valid(None) ELSE validated

---------------------------------------------------------------------------
(* The leaf models: construction returns [ok, value]; ok is FALSE when     *)
(* pydantic raises ValidationError.                                        *)

Voice(Name, PreGap, PostGap, Text, Url, TTSConfig, Source, UseCache) ==
    LET name  == ValidateStr(Name)
        pre   == ValidateFloat(PreGap)
        post  == ValidateFloat(PostGap)
        text  == Optional(Text, ValidateStr(Text))
        url   == Optional(Url, ValidateStr(Url))
        cfg   == Optional(TTSConfig, ValidateTTSConfig(TTSConfig))
        src   == ValidateInt(Source)
        cache == ValidateBool(UseCache)
    IN  [ok |-> name.ok /\ pre.ok /\ post.ok /\ text.ok /\ url.ok /\ cfg.ok
                /\ src.ok /\ cache.ok,
         value |-> [Name |-> name.v, PreGap |-> pre.v, PostGap |-> post.v,
                    Text |-> text.v, Url |-> url.v, TTSConfig |-> cfg.v,
                    Source |-> src.v, UseCache |-> cache.v]]

Animation(Name, LayerName, Duration, FadeLength, Weight, PreGap, Description) ==
    LET name  == ValidateStr(Name)
        layer == Optional(LayerName, ValidateStr(LayerName))
        dur   == ValidateFloat(Duration)
        fade  == ValidateFloat(FadeLength)
        wt    == ValidateFloat(Weight)
        pre   == ValidateFloat(PreGap)
        desc  == Optional(Description, ValidateStr(Description))
    IN  [ok |-> name.ok /\ layer.ok /\ dur.ok /\ fade.ok /\ wt.ok /\ pre.ok /\ desc.ok,
         value |-> [Name |-> name.v, LayerName |-> layer.v, Duration |-> dur.v,
                    FadeLength |-> fade.v, Weight |-> wt.v, PreGap |-> pre.v,
                    Description |-> desc.v]]

FaceExpression(Name, Duration, Description) ==
    LET name == ValidateStr(Name)
        dur  == ValidateFloat(Duration)
        desc == Optional(Description, ValidateStr(Description))
    IN  [ok |-> name.ok /\ dur.ok /\ desc.ok,
         value |-> [Name |-> name.v, Duration |-> dur.v, Description |-> desc.v]]

---------------------------------------------------------------------------
(* The heap.  H is the record of the five container heaps and the          *)
(* AnimatedVoiceRequest objects; every operation maps a heap to a heap.    *)

Heap == [avrs |-> avrs, frameLists |-> frameLists, voiceLists |-> voiceLists,
         animDicts |-> animDicts, faceLists |-> faceLists]

\* the class-level default containers of AnimatedVoice (Voices, Animations, Faces)
ClsRef == <<-1, 0>>
\* the class-level default list of AnimatedVoiceRequest.AnimatedVoices
ClsFrames == -1
\* the AnimatedVoiceRequest() instance inside the class-level default list of
\* Response.AnimatedVoiceRequests, built when the class is defined
ClsAvr == 0

EmptyDict == [k \in {} |-> <<>>]

\* A model instance built without a value for a field gets a copy of the
\* field's default: the field is bound to a fresh object, not to the
\* class-level one.
FieldDefaultShared(fresh, cls) == cls
FieldDefault(fresh, cls) == fresh

\* heap h with reference r bound to content c, unless r is an object it already holds
Alloc(h, r, c) == IF r \in DOMAIN h THEN h ELSE (r :> c) @@ h

\* a deep copy of the frame list src as the new list dst
CopyFrames(H, src, dst) ==
    LET fs == H.frameLists[src]
        idx == 1 .. Len(fs)
        refs == { <<dst, i>> : i \in idx }
    IN  [H EXCEPT
            !.frameLists = Alloc(@, dst, [i \in idx |->
                              [Voices |-> <<dst, i>>, Animations |-> <<dst, i>>,
                               Faces |-> <<dst, i>>]]),
            !.voiceLists = [r \in refs |-> H.voiceLists[fs[r[2]].Voices]] @@ @,
            !.animDicts  = [r \in refs |-> H.animDicts[fs[r[2]].Animations]] @@ @,
            !.faceLists  = [r \in refs |-> H.faceLists[fs[r[2]].Faces]] @@ @]

\* AnimatedVoiceRequest(BaseLayerName=..., DisableBlink=...) as object id
NewAnimatedVoiceRequest(H, id, BaseLayerName, DisableBlink) ==
    LET base  == ValidateStr(Arg(BaseLayerName, Str("Base Layer")))
        blink == ValidateBool(Arg(DisableBlink, Bool(TRUE)))
        list  == FieldDefault(id, ClsFrames)
        H1    == IF list \in DOMAIN H.frameLists THEN H ELSE CopyFrames(H, ClsFrames, list)
    IN  [ok |-> base.ok /\ blink.ok,
         heap |-> [H1 EXCEPT !.avrs = (id :>
                     [AnimatedVoices |-> list, DisableBlink |-> blink.v,
                      StopIdlingOnStart |-> Bool(TRUE), StartIdlingOnEnd |-> Bool(TRUE),
                      StopLayeredAnimations |-> Bool(TRUE),
                      BaseLayerName |-> base.v]) @@ @]]

\* a deep copy of the AnimatedVoiceRequest src as object id
CopyAnimatedVoiceRequest(H, src, id) ==
    LET H1 == CopyFrames(H, H.avrs[src].AnimatedVoices, id)
    IN  [H1 EXCEPT !.avrs = (id :> [H.avrs[src] EXCEPT !.AnimatedVoices = id]) @@ @]

\* the frames of AnimatedVoiceRequest a
Frames(H, a) == H.frameLists[H.avrs[a].AnimatedVoices]

\* mutant: the position of the new frame counted from zero
FrameCountZeroBased(H, list) == Len(H.frameLists[list]) - 1

\* `return len(self.AnimatedVoices)`
FrameCount(H, list) == Len(H.frameLists[list])

\* CreateNewFrame: [heap, ret]
CreateNewFrame(H, a) ==
    LET list  == H.avrs[a].AnimatedVoices
        fresh == <<list, Len(H.frameLists[list]) + 1>>
        frame == [Voices |-> FieldDefault(fresh, ClsRef),
                  Animations |-> FieldDefault(fresh, ClsRef),
                  Faces |-> FieldDefault(fresh, ClsRef)]
        H1 == [H EXCEPT
                 !.voiceLists = Alloc(@, frame.Voices, H.voiceLists[ClsRef]),
                 !.animDicts  = Alloc(@, frame.Animations, H.animDicts[ClsRef]),
                 !.faceLists  = Alloc(@, frame.Faces, H.faceLists[ClsRef]),
                 !.frameLists = [@ EXCEPT ![list] = Append(@, frame)]]
    IN  [heap |-> H1, ret |-> FrameCount(H1, list)]

\* mutants: a new frame for every call; a new frame only when asked for
NewFrameWantedAlways(H, a, AsNewFrame) == TRUE
NewFrameWantedFlagOnly(H, a, AsNewFrame) == AsNewFrame

\* `if AsNewFrame or len(self.AnimatedVoices) == 0: self.CreateNewFrame()`
NewFrameWanted(H, a, AsNewFrame) == AsNewFrame \/ Len(Frames(H, a)) = 0

\* mutant: an Add* call never creates a frame
EnsureFrameNever(H, a, AsNewFrame) == H

EnsureFrame(H, a, AsNewFrame) ==
    IF NewFrameWanted(H, a, AsNewFrame) THEN CreateNewFrame(H, a).heap ELSE H

\* self.AnimatedVoices[-1]; indexing an empty list raises IndexError
LastFrame(H, a) == Frames(H, a)[Len(Frames(H, a))]

IndexError(H) == [heap |-> H, outcome |-> "IndexError", elem |-> None]

\* mutant: the voice is put in front of the voices the frame already has
AppendVoiceInFront(H, a, v) ==
    IF Len(Frames(H, a)) = 0 THEN IndexError(H)
    ELSE IF v.ok
    THEN [heap |-> [H EXCEPT !.voiceLists[LastFrame(H, a).Voices] = <<v.value>> \o @],
          outcome |-> "ok", elem |-> v.value]
    ELSE [heap |-> H, outcome |-> "ValidationError", elem |-> v.value]

\* self.AnimatedVoices[-1].Voices.append(v), v the result of Voice(...)
AppendVoice(H, a, v) ==
    IF Len(Frames(H, a)) = 0 THEN IndexError(H)
    ELSE IF v.ok
    THEN [heap |-> [H EXCEPT !.voiceLists[LastFrame(H, a).Voices] = Append(@, v.value)],
          outcome |-> "ok", elem |-> v.value]
    ELSE [heap |-> H, outcome |-> "ValidationError", elem |-> v.value]

\* mutant: AddVoice without UseCache=False, so that the field default applies
AddVoiceCached(H, a, Name, PreGap, PostGap, AsNewFrame) ==
    AppendVoice(EnsureFrame(H, a, AsNewFrame), a,
                Voice(Name, Arg(PreGap, Num(0)), Arg(PostGap, Num(0)),
                      None, None, None, VoiceSource.Local, Bool(TRUE)))

AddVoice(H, a, Name, PreGap, PostGap, AsNewFrame) ==
    AppendVoice(EnsureFrame(H, a, AsNewFrame), a,
                Voice(Name, Arg(PreGap, Num(0)), Arg(PostGap, Num(0)),
                      None, None, None, VoiceSource.Local, Bool(FALSE)))

AddVoiceWeb(H, a, Url, PreGap, PostGap, Name, UseCache, AsNewFrame) ==
    AppendVoice(EnsureFrame(H, a, AsNewFrame), a,
                Voice(PyOr(Arg(Name, None), Str("")), Arg(PreGap, Num(0)),
                      Arg(PostGap, Num(0)), None, Url, None, VoiceSource.Web,
                      Arg(UseCache, Bool(TRUE))))

AddVoiceTTS(H, a, Text, PreGap, PostGap, Name, TTSConfig, UseCache, AsNewFrame) ==
    AppendVoice(EnsureFrame(H, a, AsNewFrame), a,
                Voice(PyOr(Arg(Name, None), Str("")), Arg(PreGap, Num(0)),
                      Arg(PostGap, Num(0)), Text, None, Arg(TTSConfig, None),
                      VoiceSource.TTS, Arg(UseCache, Bool(TRUE))))

\* mutant: every animation goes to the base layer
TargetLayerBaseOnly(H, a, LayerName) == H.avrs[a].BaseLayerName

\* mutant: without a LayerName, the layer is one the frame already has, if any
TargetLayerOfFrame(H, a, LayerName) ==
    LET given == Arg(LayerName, None)
        keys == IF Len(Frames(H, a)) = 0 THEN {}
                ELSE DOMAIN H.animDicts[LastFrame(H, a).Animations]
    IN  IF Truthy(given) THEN given
        ELSE IF keys # {} THEN CHOOSE k \in keys : k # H.avrs[a].BaseLayerName \/ keys = {k}
        ELSE H.avrs[a].BaseLayerName

\* `target_layer = LayerName or self.BaseLayerName`
TargetLayer(H, a, LayerName) == PyOr(Arg(LayerName, None), H.avrs[a].BaseLayerName)

AddAnimation(H, a, Name, LayerName, Duration, FadeLength, Weight, PreGap, Description, AsNewFrame) ==
    LET H1 == EnsureFrame(H, a, AsNewFrame)
        target_layer == TargetLayer(H1, a, LayerName)
        d  == IF Len(Frames(H1, a)) = 0 THEN ClsRef ELSE LastFrame(H1, a).Animations
        H2 == IF target_layer \notin DOMAIN H1.animDicts[d]
              THEN [H1 EXCEPT !.animDicts[d] = (target_layer :> <<>>) @@ @]
              ELSE H1
        an == Animation(Name, target_layer, Arg(Duration, Num(0)),
                        Arg(FadeLength, Num(-1)), Arg(Weight, Num(1)),
                        Arg(PreGap, Num(0)), Arg(Description, None))
    IN  IF Len(Frames(H1, a)) = 0 THEN IndexError(H1)
        ELSE IF an.ok
        THEN [heap |-> [H2 EXCEPT !.animDicts[d][target_layer] = Append(@, an.value)],
              outcome |-> "ok", elem |-> an.value]
        ELSE [heap |-> H2, outcome |-> "ValidationError", elem |-> an.value]

\* mutant: AddFace also empties the Animations of the frame
AddFaceDropsAnimations(H, a, Name, Duration, Description, AsNewFrame) ==
    LET H1 == EnsureFrame(H, a, AsNewFrame)
        fc == FaceExpression(Name, Arg(Duration, Num(0)), Arg(Description, None))
    IN  IF Len(Frames(H1, a)) = 0 THEN IndexError(H1)
        ELSE IF fc.ok
        THEN [heap |-> [H1 EXCEPT !.faceLists[LastFrame(H1, a).Faces] = Append(@, fc.value),
                                  !.animDicts[LastFrame(H1, a).Animations] = EmptyDict],
              outcome |-> "ok", elem |-> fc.value]
        ELSE [heap |-> H1, outcome |-> "ValidationError", elem |-> fc.value]

AddFace(H, a, Name, Duration, Description, AsNewFrame) ==
    LET H1 == EnsureFrame(H, a, AsNewFrame)
        fc == FaceExpression(Name, Arg(Duration, Num(0)), Arg(Description, None))
    IN  IF Len(Frames(H1, a)) = 0 THEN IndexError(H1)
        ELSE IF fc.ok
        THEN [heap |-> [H1 EXCEPT !.faceLists[LastFrame(H1, a).Faces] = Append(@, fc.value)],
              outcome |-> "ok", elem |-> fc.value]
        ELSE [heap |-> H1, outcome |-> "ValidationError", elem |-> fc.value]

---------------------------------------------------------------------------
(* Response: the AnimatedVoiceRequest property and the delegating methods. *)

\* mutant: the first AnimatedVoiceRequest instead of the last
ResponseAnimatedVoiceRequestFirst(resp) == resp.AnimatedVoiceRequests[1]

\* `self.AnimatedVoiceRequests[-1]`; indexing an empty list raises IndexError
ResponseAnimatedVoiceRequest(resp) ==
    resp.AnimatedVoiceRequests[Len(resp.AnimatedVoiceRequests)]

ResponseAddVoice(H, resp, Name, PreGap, PostGap, AsNewFrame) ==
    IF Len(resp.AnimatedVoiceRequests) = 0 THEN IndexError(H)
    ELSE AddVoice(H, ResponseAnimatedVoiceRequest(resp), Name, Arg(PreGap, Num(0)),
                  Arg(PostGap, Num(0)), AsNewFrame)

ResponseAddVoiceWeb(H, resp, Url, PreGap, PostGap, Name, UseCache, AsNewFrame) ==
    IF Len(resp.AnimatedVoiceRequests) = 0 THEN IndexError(H)
    ELSE AddVoiceWeb(H, ResponseAnimatedVoiceRequest(resp), Url, Arg(PreGap, Num(0)),
                     Arg(PostGap, Num(0)), Arg(Name, None), Arg(UseCache, Bool(TRUE)),
                     AsNewFrame)

ResponseAddVoiceTTS(H, resp, Text, PreGap, PostGap, Name, TTSConfig, UseCache, AsNewFrame) ==
    IF Len(resp.AnimatedVoiceRequests) = 0 THEN IndexError(H)
    ELSE AddVoiceTTS(H, ResponseAnimatedVoiceRequest(resp), Text, Arg(PreGap, Num(0)),
                     Arg(PostGap, Num(0)), Arg(Name, None), Arg(TTSConfig, None),
                     Arg(UseCache, Bool(TRUE)), AsNewFrame)

ResponseAddAnimation(H, resp, Name, LayerName, Duration, FadeLength, Weight, PreGap, Description, AsNewFrame) ==
    IF Len(resp.AnimatedVoiceRequests) = 0 THEN IndexError(H)
    ELSE AddAnimation(H, ResponseAnimatedVoiceRequest(resp), Name, Arg(LayerName, None),
                      Arg(Duration, Num(0)), Arg(FadeLength, Num(-1)),
                      Arg(Weight, Num(1)), Arg(PreGap, Num(0)), Arg(Description, None),
                      AsNewFrame)

ResponseAddFace(H, resp, Name, Duration, Description, AsNewFrame) ==
    IF Len(resp.AnimatedVoiceRequests) = 0 THEN IndexError(H)
    ELSE AddFace(H, ResponseAnimatedVoiceRequest(resp), Name, Arg(Duration, Num(0)),
                 Arg(Description, None), AsNewFrame)

\* Response(Id=...): AnimatedVoiceRequests is a copy of the default
\* [AnimatedVoiceRequest()], whose element is copied as object id
NewResponse(H, id) ==
    LET elt == FieldDefault(id, ClsAvr)
    IN  [heap |-> IF elt \in DOMAIN H.avrs THEN H ELSE CopyAnimatedVoiceRequest(H, ClsAvr, elt),
         resp |-> [AnimatedVoiceRequests |-> <<elt>>]]

---------------------------------------------------------------------------
(* What a caller can observe of an AnimatedVoiceRequest: its frames with   *)
(* the contents of their containers, and its flags.                        *)

FrameView(H, f) ==
    [Voices |-> H.voiceLists[f.Voices], Animations |-> H.animDicts[f.Animations],
     Faces |-> H.faceLists[f.Faces]]

View(H, a) ==
    [AnimatedVoices |-> [i \in 1 .. Len(Frames(H, a)) |-> FrameView(H, Frames(H, a)[i])],
     DisableBlink |-> H.avrs[a].DisableBlink,
     StopIdlingOnStart |-> H.avrs[a].StopIdlingOnStart,
     StartIdlingOnEnd |-> H.avrs[a].StartIdlingOnEnd,
     StopLayeredAnimations |-> H.avrs[a].StopLayeredAnimations,
     BaseLayerName |-> H.avrs[a].BaseLayerName]

\* the AnimatedVoiceRequest objects a program holds (the class-level one is not handed out)
Avrs == DOMAIN avrs \ {ClsAvr}

Views(H) == [a \in DOMAIN H.avrs |-> View(H, a)]

---------------------------------------------------------------------------
(* The arguments the calls are made with. *)

NoArgs ==
    [Name |-> Omitted, Url |-> Omitted, Text |-> Omitted, PreGap |-> Omitted,
     PostGap |-> Omitted, TTSConfig |-> Omitted, UseCache |-> Omitted,
     LayerName |-> Omitted, Duration |-> Omitted, FadeLength |-> Omitted,
     Weight |-> Omitted, Description |-> Omitted, AsNewFrame |-> FALSE]

\* the call c with AsNewFrame=True
NewFrame(c) == [c EXCEPT !.AsNewFrame = TRUE]
\* the calls C, each made with AsNewFrame left out and with AsNewFrame=True
BothWays(C) == C \cup { NewFrame(c) : c \in C }

AddVoiceArgs ==
    BothWays({ [NoArgs EXCEPT !.Name = Str("hello_local")] })
    \cup { [NoArgs EXCEPT !.Name = Str("bye"), !.PreGap = Num(-1), !.PostGap = Num(1)],
           [NoArgs EXCEPT !.Name = None, !.AsNewFrame = TRUE] }

AddVoiceWebArgs ==
    BothWays({ [NoArgs EXCEPT !.Url = Str("http://x/a.wav")] })
    \cup { [NoArgs EXCEPT !.Url = Str("http://x/a.wav"), !.Name = Str("jingle"),
                          !.UseCache = Bool(FALSE), !.PostGap = Num(-1)],
           [NoArgs EXCEPT !.Url = Str("http://x/a.wav"), !.PreGap = Str("soon")],
           [NoArgs EXCEPT !.Url = None] }

AddVoiceTTSArgs ==
    BothWays({ [NoArgs EXCEPT !.Text = Str("hi there")] })
    \cup { [NoArgs EXCEPT !.Text = Str("hi there"), !.Name = Str("greeting"),
                          !.TTSConfig = Cfg("fast"), !.UseCache = Bool(FALSE)],
           [NoArgs EXCEPT !.Text = Str("hi there"), !.UseCache = None],
           [NoArgs EXCEPT !.Text = None, !.Name = Str("silent")] }

AddAnimationArgs ==
    BothWays({ [NoArgs EXCEPT !.Name = Str("walk")] })
    \cup { [NoArgs EXCEPT !.Name = Str("wave"), !.LayerName = Str("Arms")],
           [NoArgs EXCEPT !.Name = Str("run"), !.Duration = Num(-1), !.FadeLength = Num(0),
                          !.Weight = Num(0), !.Description = Str("fast")],
           [NoArgs EXCEPT !.Name = Str("nod"), !.LayerName = Str("")],
           [NoArgs EXCEPT !.Name = Str("wave"), !.LayerName = Str("Arms"),
                          !.Duration = None] }

AddFaceArgs ==
    BothWays({ [NoArgs EXCEPT !.Name = Str("smile")] })
    \cup { [NoArgs EXCEPT !.Name = Str("wink"), !.Duration = Num(-1),
                          !.Description = Str("left"), !.AsNewFrame = TRUE],
           [NoArgs EXCEPT !.Name = Num(7)],
           [NoArgs EXCEPT !.Name = None] }

\* the calls of SpecShared, where what matters is which object a call lands on
SharedAddVoiceArgs == { [NoArgs EXCEPT !.Name = Str("hello_local")] }
SharedAddVoiceWebArgs ==
    { [NoArgs EXCEPT !.Url = Str("http://x/a.wav")],
      [NoArgs EXCEPT !.Url = Str("http://x/a.wav"), !.Name = Str("jingle"),
                     !.UseCache = Bool(FALSE), !.PreGap = Num(1), !.PostGap = Num(-1)] }
SharedAddVoiceTTSArgs == { [NoArgs EXCEPT !.Text = Str("hi there")] }
SharedAddAnimationArgs == { [NoArgs EXCEPT !.Name = Str("walk")] }
SharedAddFaceArgs == BothWays({ [NoArgs EXCEPT !.Name = Str("smile")] })

\* the constructor arguments of AnimatedVoiceRequest
AnimatedVoiceRequestArgs ==
    { [BaseLayerName |-> Omitted, DisableBlink |-> Omitted],
      [BaseLayerName |-> Str("Body"), DisableBlink |-> Bool(FALSE)] }

---------------------------------------------------------------------------
(* State and actions. *)

ClassDefaults ==
    [avrs |-> <<>>, frameLists |-> (ClsFrames :> <<>>), voiceLists |-> (ClsRef :> <<>>),
     animDicts |-> (ClsRef :> EmptyDict), faceLists |-> (ClsRef :> <<>>)]

NoCall ==
    [op |-> "none", via |-> 0, target |-> ClsAvr, args |-> NoArgs,
     outcome |-> "ok", elem |-> None, ret |-> 0, heap |-> ClassDefaults,
     responses |-> <<>>]

\* no call of from_exception yet
NoEnvelope ==
    [called |-> FALSE, raised |-> "", cls |-> "", Error |-> None, payload |-> None,
     ex |-> None, debug |-> Omitted]

\* no call of from_janome yet
NoWords == [called |-> FALSE, tokens |-> <<>>, nodes |-> <<>>]

\* the heap once the module is imported: the class-level defaults, among
\* them the AnimatedVoiceRequest() inside Response's default list
Imported == NewAnimatedVoiceRequest(ClassDefaults, ClsAvr, Omitted, Omitted).heap

Init ==
    /\ avrs = Imported.avrs
    /\ frameLists = Imported.frameLists
    /\ voiceLists = Imported.voiceLists
    /\ animDicts = Imported.animDicts
    /\ faceLists = Imported.faceLists
    /\ responses = <<>>
    /\ last = NoCall
    /\ calls = 0
    /\ envelope = NoEnvelope
    /\ words = NoWords

SetHeap(H) ==
    /\ avrs' = H.avrs
    /\ frameLists' = H.frameLists
    /\ voiceLists' = H.voiceLists
    /\ animDicts' = H.animDicts
    /\ faceLists' = H.faceLists

NextId == Cardinality(Avrs) + 1

\* the AnimatedVoiceRequest objects that no Response holds
Standalone == { a \in Avrs : \A r \in DOMAIN responses :
                   \A i \in DOMAIN responses[r].AnimatedVoiceRequests :
                      responses[r].AnimatedVoiceRequests[i] # a }

\* a call of operation op on target (through response via, 0 for a direct
\* call) that ended as R
Called(op, via, target, args, R, ret) ==
    /\ SetHeap(R.heap)
    /\ last' = [op |-> op, via |-> via, target |-> target, args |-> args,
                outcome |-> R.outcome, elem |-> R.elem,
                ret |-> ret, heap |-> Heap, responses |-> responses]
    /\ calls' = calls + 1
    /\ UNCHANGED <<responses, envelope, words>>

Constructed(op, H) ==
    /\ SetHeap(H)
    /\ last' = [NoCall EXCEPT !.op = op, !.heap = Heap, !.responses = responses]
    /\ UNCHANGED <<calls, envelope, words>>

ConstructAnimatedVoiceRequest ==
    \E c \in AnimatedVoiceRequestArgs :
       /\ Constructed("AnimatedVoiceRequest",
                      NewAnimatedVoiceRequest(Heap, NextId, c.BaseLayerName,
                                              c.DisableBlink).heap)
       /\ UNCHANGED responses

ConstructResponse ==
    LET R == NewResponse(Heap, NextId)
    IN  /\ Constructed("Response", R.heap)
        /\ responses' = Append(responses, R.resp)

\* Response(Id=..., AnimatedVoiceRequests=[])
ConstructResponseEmpty ==
    /\ Constructed("ResponseEmpty", Heap)
    /\ responses' = Append(responses, [AnimatedVoiceRequests |-> <<>>])

\* Response(Id=..., AnimatedVoiceRequests=[AnimatedVoiceRequest(), AnimatedVoiceRequest()])
ConstructResponseTwo ==
    LET H1 == NewAnimatedVoiceRequest(Heap, NextId, Omitted, Omitted).heap
        H2 == NewAnimatedVoiceRequest(H1, NextId + 1, Omitted, Omitted).heap
    IN  /\ Constructed("ResponseTwo", H2)
        /\ responses' = Append(responses,
               [AnimatedVoiceRequests |-> <<NextId, NextId + 1>>])

CallCreateNewFrame(targets) ==
    \E a \in targets :
       LET R == CreateNewFrame(Heap, a)
       IN  Called("CreateNewFrame", 0, a, NoArgs,
                  [heap |-> R.heap, outcome |-> "ok", elem |-> None], R.ret)

CallAddVoice(targets, args) ==
    \E a \in targets, c \in args :
       Called("AddVoice", 0, a, c,
              AddVoice(Heap, a, c.Name, c.PreGap, c.PostGap, c.AsNewFrame), 0)

CallAddVoiceWeb(targets, args) ==
    \E a \in targets, c \in args :
       Called("AddVoiceWeb", 0, a, c,
              AddVoiceWeb(Heap, a, c.Url, c.PreGap, c.PostGap, c.Name, c.UseCache,
                          c.AsNewFrame), 0)

CallAddVoiceTTS(targets, args) ==
    \E a \in targets, c \in args :
       Called("AddVoiceTTS", 0, a, c,
              AddVoiceTTS(Heap, a, c.Text, c.PreGap, c.PostGap, c.Name, c.TTSConfig,
                          c.UseCache, c.AsNewFrame), 0)

CallAddAnimation(targets, args) ==
    \E a \in targets, c \in args :
       Called("AddAnimation", 0, a, c,
              AddAnimation(Heap, a, c.Name, c.LayerName, c.Duration, c.FadeLength,
                           c.Weight, c.PreGap, c.Description, c.AsNewFrame), 0)

CallAddFace(targets, args) ==
    \E a \in targets, c \in args :
       Called("AddFace", 0, a, c,
              AddFace(Heap, a, c.Name, c.Duration, c.Description, c.AsNewFrame), 0)

\* the object a call through response r lands on (the class-level one stands
\* for none when the list is empty)
Landing(r) ==
    IF Len(responses[r].AnimatedVoiceRequests) = 0 THEN ClsAvr
    ELSE ResponseAnimatedVoiceRequest(responses[r])

CallResponseAddVoice(args) ==
    \E r \in DOMAIN responses, c \in args :
       Called("AddVoice", r, Landing(r), c,
              ResponseAddVoice(Heap, responses[r], c.Name, c.PreGap, c.PostGap,
                               c.AsNewFrame), 0)

CallResponseAddVoiceWeb(args) ==
    \E r \in DOMAIN responses, c \in args :
       Called("AddVoiceWeb", r, Landing(r), c,
              ResponseAddVoiceWeb(Heap, responses[r], c.Url, c.PreGap, c.PostGap,
                                  c.Name, c.UseCache, c.AsNewFrame), 0)

CallResponseAddVoiceTTS(args) ==
    \E r \in DOMAIN responses, c \in args :
       Called("AddVoiceTTS", r, Landing(r), c,
              ResponseAddVoiceTTS(Heap, responses[r], c.Text, c.PreGap, c.PostGap,
                                  c.Name, c.TTSConfig, c.UseCache, c.AsNewFrame), 0)

CallResponseAddAnimation(args) ==
    \E r \in DOMAIN responses, c \in args :
       Called("AddAnimation", r, Landing(r), c,
              ResponseAddAnimation(Heap, responses[r], c.Name, c.LayerName, c.Duration,
                                   c.FadeLength, c.Weight, c.PreGap, c.Description,
                                   c.AsNewFrame), 0)

CallResponseAddFace(args) ==
    \E r \in DOMAIN responses, c \in args :
       Called("AddFace", r, Landing(r), c,
              ResponseAddFace(Heap, responses[r], c.Name, c.Duration, c.Description,
                              c.AsNewFrame), 0)

(* Spec: one dialog turn.  One builder is constructed, an                  *)
(* AnimatedVoiceRequest or a Response, and then filled: the                *)
(* AnimatedVoiceRequest by direct calls, the Response through its own      *)
(* methods.                                                                *)

NothingBuilt == Avrs = {} /\ responses = <<>>

Construct ==
    /\ NothingBuilt
    /\ \/ ConstructAnimatedVoiceRequest
       \/ ConstructResponse
       \/ ConstructResponseEmpty

Call ==
    /\ calls < MaxCalls
    /\ \/ CallCreateNewFrame(Standalone)
       \/ CallAddVoice(Standalone, AddVoiceArgs)
       \/ CallAddVoiceWeb(Standalone, AddVoiceWebArgs)
       \/ CallAddVoiceTTS(Standalone, AddVoiceTTSArgs)
       \/ CallAddAnimation(Standalone, AddAnimationArgs)
       \/ CallAddFace(Standalone, AddFaceArgs)
       \/ CallResponseAddVoice(AddVoiceArgs)
       \/ CallResponseAddVoiceWeb(AddVoiceWebArgs)
       \/ CallResponseAddVoiceTTS(AddVoiceTTSArgs)
       \/ CallResponseAddAnimation(AddAnimationArgs)
       \/ CallResponseAddFace(AddFaceArgs)

Next == Construct \/ Call

Spec == Init /\ [][Next]_vars

(* SpecShared: several builders and Responses, constructed at any time and *)
(* filled in any interleaving, directly and through the Responses.         *)

ConstructShared ==
    \/ /\ Cardinality(Avrs) < MaxAvrs
       /\ ConstructAnimatedVoiceRequest
    \/ /\ Cardinality(Avrs) < MaxAvrs
       /\ Len(responses) < MaxResponses
       /\ ConstructResponse
    \/ /\ Cardinality(Avrs) + 2 <= MaxAvrs
       /\ Len(responses) < MaxResponses
       /\ ConstructResponseTwo

CallShared ==
    /\ calls < MaxSharedCalls
    /\ \/ CallCreateNewFrame(Avrs)
       \/ CallAddVoice(Avrs, SharedAddVoiceArgs)
       \/ CallAddVoiceWeb(Avrs, SharedAddVoiceWebArgs)
       \/ CallAddVoiceTTS(Avrs, SharedAddVoiceTTSArgs)
       \/ CallAddAnimation(Avrs, SharedAddAnimationArgs)
       \/ CallAddFace(Avrs, SharedAddFaceArgs)
       \/ CallResponseAddVoice(SharedAddVoiceArgs)
       \/ CallResponseAddVoiceWeb(SharedAddVoiceWebArgs)
       \/ CallResponseAddVoiceTTS(SharedAddVoiceTTSArgs)
       \/ CallResponseAddAnimation(SharedAddAnimationArgs)
       \/ CallResponseAddFace(SharedAddFaceArgs)

NextShared == ConstructShared \/ CallShared

SpecShared == Init /\ [][NextShared]_vars

---------------------------------------------------------------------------
(* Exceptions and ApiResponseBase.from_exception. *)

\* an attribute that was never set on the object
Missing == [t |-> "missing", s |-> "", n |-> 0]

DomainClasses == { "ChatdollKitException", "SkillNotFoundException" }

\* ChatdollKitException(error_code, message, root_cause), or a subclass of it
ChatdollKitException(cls, error_code, message, root_cause) ==
    [cls |-> cls, error_code |-> Arg(error_code, Str("0000")),
     message |-> Arg(message, Str("Error")), root_cause |-> Arg(root_cause, None),
     text |-> ""]

\* a subclass of ChatdollKitException whose __init__ sets none of the attributes
BareSubclass(cls) ==
    [cls |-> cls, error_code |-> Missing, message |-> Missing, root_cause |-> Missing,
     text |-> ""]

\* any other exception, text being its str()
OtherException(cls, text) ==
    [cls |-> cls, error_code |-> Missing, message |-> Missing, root_cause |-> Missing,
     text |-> text]

\* isinstance(ex, ChatdollKitException)
IsChatdollKitException(ex) == ex.cls \in DomainClasses \cup { "BareSkillError" }

\* str(ex): [ok, v]; __str__ of ChatdollKitException returns self.message, and
\* str() raises TypeError when that is not a str
StrOf(ex) ==
    IF IsChatdollKitException(ex)
    THEN IF ex.message.t = "str" THEN Valid(ex.message) ELSE Invalid
    ELSE Valid(Str(ex.text))

ApiError(Code, Message, Detail) ==
    LET code == ValidateStr(Code)
        msg  == ValidateStr(Message)
        det  == Optional(Detail, ValidateStr(Detail))
    IN  [ok |-> code.ok /\ msg.ok /\ det.ok,
         value |-> [Code |-> code.v, Message |-> msg.v, Detail |-> det.v]]

Raised(cls, ex, debug, what) ==
    [called |-> TRUE, raised |-> what, cls |-> cls, Error |-> None, payload |-> None,
     ex |-> ex, debug |-> debug]

\* mutant: every exception is mapped to the generic code and message
from_exception_generic(cls, ex, debug, traceback) ==
    LET text == StrOf(ex)
        Detail == IF Truthy(Arg(debug, Bool(FALSE)))
                  THEN Str(text.v.s \o "\n" \o traceback)
                  ELSE None
    IN  [called |-> TRUE, raised |-> "", cls |-> cls,
         Error |-> ApiError(Str("E9999"), Str("Unexpected error"), Detail).value,
         payload |-> None, ex |-> ex, debug |-> debug]

\* mutant: Detail is the text of the exception, whatever debug is
from_exception_detailed(cls, ex, debug, traceback) ==
    LET domain == IsChatdollKitException(ex)
        err == ApiError(IF domain THEN ex.error_code ELSE Str("E9999"),
                        IF domain THEN ex.message ELSE Str("Unexpected error"),
                        Str(StrOf(ex).v.s))
    IN  IF err.ok
        THEN [called |-> TRUE, raised |-> "", cls |-> cls, Error |-> err.value,
              payload |-> None, ex |-> ex, debug |-> debug]
        ELSE Raised(cls, ex, debug, "ValidationError")

\* cls.from_exception(ex, debug), traceback being what traceback.format_exc() returns
from_exception(cls, ex, debug, traceback) ==
    LET domain == IsChatdollKitException(ex)
        error_code == IF domain THEN ex.error_code ELSE Str("E9999")
        message == IF domain THEN ex.message ELSE Str("Unexpected error")
        text == StrOf(ex)
        Detail == IF Truthy(Arg(debug, Bool(FALSE)))
                  THEN Str(text.v.s \o "\n" \o traceback)
                  ELSE None
        err == ApiError(error_code, message, Detail)
    IN  IF domain /\ (ex.error_code = Missing \/ ex.message = Missing)
        THEN Raised(cls, ex, debug, "AttributeError")
        ELSE IF Truthy(Arg(debug, Bool(FALSE))) /\ ~text.ok
        THEN Raised(cls, ex, debug, "TypeError")
        ELSE IF ~err.ok
        THEN Raised(cls, ex, debug, "ValidationError")
        ELSE [called |-> TRUE, raised |-> "", cls |-> cls, Error |-> err.value,
              payload |-> None, ex |-> ex, debug |-> debug]

\* the envelope classes: ApiResponseBase and its subclasses
EnvelopeClasses ==
    { "ApiResponseBase", "ApiPromptResponse", "ApiSkillsResponse", "ApiIntentResponse",
      "ApiSkillResponse" }

ErrorCodes == { Omitted, Str("E1001"), Str(""), Num(1001), None }
Messages == { Omitted, Str("Skill not found"), Str(""), Num(7), None }

Exceptions ==
    { ChatdollKitException(c, e, m, Omitted) :
         c \in DomainClasses, e \in ErrorCodes, m \in Messages }
    \cup { ChatdollKitException("ChatdollKitException", Str("E1001"),
                                Str("Skill not found"), Str("KeyError: 'weather'")) }
    \cup { BareSubclass("BareSkillError") }
    \cup { OtherException(c, t) : c \in { "ValueError", "KeyError" },
                                  t \in { "", "boom", "E1001" } }

\* traceback.format_exc() outside and inside an except block
Tracebacks ==
    { "NoneType: None\n", "Traceback (most recent call last):\n  ...\n" }

Debugs == { Omitted, Bool(FALSE), Bool(TRUE) }

CallFromException ==
    /\ \E cls \in EnvelopeClasses, ex \in Exceptions, debug \in Debugs, tb \in Tracebacks :
          envelope' = from_exception(cls, ex, debug, tb)
    /\ UNCHANGED <<avrs, frameLists, voiceLists, animDicts, faceLists, responses, last, calls,
                   words>>

NextErr == CallFromException

SpecErr == Init /\ [][NextErr]_vars

---------------------------------------------------------------------------
(* WordNode.from_janome.  A Python str is the sequence of its characters,  *)
(* so that splitting a part-of-speech tag at its commas is computed.       *)

\* the no-value sentinel "*" of the tagger, and the empty string
Star == <<"*">>
Empty == <<>>

\* the position of the first "," of s, 0 when it has none
RECURSIVE FirstComma(_, _)
FirstComma(s, i) ==
    IF i > Len(s) THEN 0
    ELSE IF s[i] = "," THEN i
    ELSE FirstComma(s, i + 1)

\* s.split(",")
RECURSIVE Split(_)
Split(s) ==
    LET i == FirstComma(s, 1)
    IN  IF i = 0 THEN <<s>>
        ELSE <<SubSeq(s, 1, i - 1)>> \o Split(SubSeq(s, i + 1, Len(s)))

\* `x if x != "*" else ""`
Unstarred(x) == IF x # Star THEN x ELSE Empty

\* the WordNode built for token t
WordNode(t) ==
    LET ps == Split(t.part_of_speech)
    IN  [Word |-> t.surface,
         Part |-> IF Len(ps) > 1 /\ ps[1] # Star THEN ps[1] ELSE Empty,
         PartDetail1 |-> IF Len(ps) > 2 /\ ps[2] # Star THEN ps[2] ELSE Empty,
         PartDetail2 |-> IF Len(ps) > 3 /\ ps[3] # Star THEN ps[3] ELSE Empty,
         PartDetail3 |-> IF Len(ps) > 4 /\ ps[4] # Star THEN ps[4] ELSE Empty,
         StemType |-> Unstarred(t.infl_type),
         StemForm |-> Unstarred(t.infl_form),
         OriginalForm |-> Unstarred(t.base_form),
         Kana |-> Unstarred(t.reading),
         Pronunciation |-> Unstarred(t.phonetic)]

\* WordNode.from_janome(tokens)
from_janome(tokens) == [i \in 1 .. Len(tokens) |-> WordNode(tokens[i])]

\* part-of-speech tags: of one to five parts, with and without sentinels,
\* and the empty tag
Tags ==
    { <<>>,
      <<"n">>,
      <<"n", ",", "g">>,
      <<"v", ",", "*", ",", "*">>,
      <<"n", ",", "g", ",", "*", ",", "*">>,
      <<"n", ",", "p", ",", "h", ",", "s">>,
      <<"*", ",", "*", ",", "*", ",", "*">>,
      <<"n", ",", "p", ",", "h", ",", "s", ",", "x">> }

\* the morphological fields of a token: none reported, all reported, some
Morphologies ==
    { [infl_type |-> Star, infl_form |-> Star, base_form |-> Star, reading |-> Star,
       phonetic |-> Star],
      [infl_type |-> <<"5">>, infl_form |-> <<"k">>, base_form |-> <<"i", "u">>,
       reading |-> <<"I", "U">>, phonetic |-> <<"Y", "U">>],
      [infl_type |-> Star, infl_form |-> Star, base_form |-> <<"i", "u">>,
       reading |-> <<"I", "U">>, phonetic |-> Star],
      [infl_type |-> <<"5">>, infl_form |-> Star, base_form |-> Star,
       reading |-> Star, phonetic |-> <<"Y", "U">>] }

Tokens ==
    { [surface |-> <<"w">>, part_of_speech |-> tag, infl_type |-> m.infl_type,
       infl_form |-> m.infl_form, base_form |-> m.base_form, reading |-> m.reading,
       phonetic |-> m.phonetic] : tag \in Tags, m \in Morphologies }

TokenLists == UNION { [1 .. n -> Tokens] : n \in 0 .. MaxTokens }

\* one call of from_janome in a behaviour: its result depends on its argument only
CallFromJanome ==
    /\ ~words.called
    /\ \E tokens \in TokenLists :
          words' = [called |-> TRUE, tokens |-> tokens, nodes |-> from_janome(tokens)]
    /\ UNCHANGED <<avrs, frameLists, voiceLists, animDicts, faceLists, responses, last, calls,
                   envelope>>

NextJanome == CallFromJanome

SpecJanome == Init /\ [][NextJanome]_vars

---------------------------------------------------------------------------
(* Properties.  The claims about what an operation does are about the      *)
(* calls that return: last.outcome = "ok".  What raises is C8's subject.   *)

VoiceOps == { "AddVoice", "AddVoiceWeb", "AddVoiceTTS" }
AddOps == VoiceOps \cup { "AddAnimation", "AddFace" }

\* the last call was an Add* operation that returned
Added == last.op \in AddOps /\ last.outcome = "ok"

\* the frames of the last call's target, before the call and now
FramesBefore == View(last.heap, last.target).AnimatedVoices
FramesNow == View(Heap, last.target).AnimatedVoices

RECURSIVE SumOfLens(_, _)
SumOfLens(d, keys) ==
    IF keys = {} THEN 0
    ELSE LET k == CHOOSE x \in keys : TRUE
         IN  Len(d[k]) + SumOfLens(d, keys \ {k})

\* the number of voices, animations and faces of a frame
FrameSize(f) == Len(f.Voices) + SumOfLens(f.Animations, DOMAIN f.Animations) + Len(f.Faces)

\* e is the last element of one of the lists of frame f, the one operation op fills
IsLastOf(f, op, e) ==
    CASE op \in VoiceOps -> Len(f.Voices) > 0 /\ f.Voices[Len(f.Voices)] = e
      [] op = "AddFace"  -> Len(f.Faces) > 0 /\ f.Faces[Len(f.Faces)] = e
      [] op = "AddAnimation" ->
            \E k \in DOMAIN f.Animations :
               Len(f.Animations[k]) > 0 /\ f.Animations[k][Len(f.Animations[k])] = e
      [] OTHER -> FALSE

\* C1: an Add* call with AsNewFrame true, or on a builder without frames,
\* adds exactly one frame and puts its element, alone, in that new last
\* frame; any other Add* call keeps the frame count and appends its element
\* to the existing last frame.  One rule for the five operations.
C1_NewFramePolicy ==
    Added =>
        LET n0 == Len(FramesBefore)
            n1 == Len(FramesNow)
        IN  IF last.args.AsNewFrame \/ n0 = 0
            THEN /\ n1 = n0 + 1
                 /\ IsLastOf(FramesNow[n1], last.op, last.elem)
                 /\ FrameSize(FramesNow[n1]) = 1
                 /\ \A i \in 1 .. n0 : FramesNow[i] = FramesBefore[i]
            ELSE /\ n1 = n0
                 /\ IsLastOf(FramesNow[n1], last.op, last.elem)
                 /\ FrameSize(FramesNow[n1]) = FrameSize(FramesBefore[n0]) + 1
                 /\ \A i \in 1 .. n0 - 1 : FramesNow[i] = FramesBefore[i]

\* AddFace("smile") then AddFace("wink", AsNewFrame=True): two frames, one face each
C1_Witness ==
    /\ Added /\ last.op = "AddFace" /\ last.args.AsNewFrame
    /\ Len(FramesBefore) = 1 /\ Len(FramesNow) = 2
    /\ Len(FramesNow[1].Faces) = 1 /\ FramesNow[1].Faces[1].Name = Str("smile")
    /\ Len(FramesNow[2].Faces) = 1 /\ FramesNow[2].Faces[1].Name = Str("wink")

EmptyFrame == [Voices |-> <<>>, Animations |-> EmptyDict, Faces |-> <<>>]

LastFrameBefore ==
    IF last.args.AsNewFrame \/ Len(FramesBefore) = 0 THEN EmptyFrame
    ELSE FramesBefore[Len(FramesBefore)]

LastFrameNow == FramesNow[Len(FramesNow)]

\* the mapping d with animation e appended to layer k, k created when absent
WithAnimation(d, k, e) ==
    [x \in DOMAIN d \cup {k} |->
        IF x = k THEN Append(IF k \in DOMAIN d THEN d[k] ELSE <<>>, e) ELSE d[x]]

\* the builder's BaseLayerName
BaseLayer == View(Heap, last.target).BaseLayerName

AnimationAdded == Added /\ last.op = "AddAnimation"

\* C3 as claimed: the layer is LayerName whenever one is given, else the
\* base layer; it is created when absent and the animation is appended to it.
C3_LayerIsGivenLayerName ==
    AnimationAdded =>
        LET layer == IF last.args.LayerName \notin { Omitted, None }
                     THEN last.args.LayerName ELSE BaseLayer
        IN  /\ last.elem.Name = last.args.Name
            /\ LastFrameNow.Animations =
                  WithAnimation(LastFrameBefore.Animations, layer, last.elem)

\* C3, amended: the layer is LayerName when one is given and is not the
\* empty string, else the base layer; it is created when absent, the
\* animation is appended at its end, and no other layer changes.
C3_LayerResolution ==
    AnimationAdded =>
        LET layer == IF last.args.LayerName \notin { Omitted, None, Str("") }
                     THEN last.args.LayerName ELSE BaseLayer
        IN  /\ last.elem.Name = last.args.Name
            /\ last.elem.LayerName = layer
            /\ LastFrameNow.Animations =
                  WithAnimation(LastFrameBefore.Animations, layer, last.elem)

Names(seq) == [i \in DOMAIN seq |-> seq[i].Name.s]

\* walk, wave on "Arms", run into one frame of a builder with the default base layer
C3_Witness ==
    /\ AnimationAdded
    /\ Len(FramesNow) = 1
    /\ DOMAIN LastFrameNow.Animations = { Str("Base Layer"), Str("Arms") }
    /\ Names(LastFrameNow.Animations[Str("Base Layer")]) = <<"walk", "run">>
    /\ Names(LastFrameNow.Animations[Str("Arms")]) = <<"wave">>

\* the value of an argument that may be left out
Given(v, default) == IF v = Omitted THEN default ELSE v

\* C5: the voice appended by AddVoice is Local, uncached, without Text and
\* Url; by AddVoiceWeb it is Web with the given Url, by AddVoiceTTS it is TTS
\* with the given Text, both cached unless UseCache is passed and named ""
\* when Name is left out.
C5_SourceDefaults ==
    (Added /\ last.op \in VoiceOps) =>
        CASE last.op = "AddVoice" ->
                /\ last.elem.Source = VoiceSource.Local
                /\ last.elem.UseCache = Bool(FALSE)
                /\ last.elem.Text = None
                /\ last.elem.Url = None
          [] last.op = "AddVoiceWeb" ->
                /\ last.elem.Source = VoiceSource.Web
                /\ last.elem.Url = last.args.Url
                /\ last.elem.UseCache = Given(last.args.UseCache, Bool(TRUE))
                /\ last.args.Name = Omitted => last.elem.Name = Str("")
          [] last.op = "AddVoiceTTS" ->
                /\ last.elem.Source = VoiceSource.TTS
                /\ last.elem.Text = last.args.Text
                /\ last.elem.UseCache = Given(last.args.UseCache, Bool(TRUE))
                /\ last.args.Name = Omitted => last.elem.Name = Str("")

\* AddVoice("hello_local") after AddVoiceTTS("hi there"), both in the builder
C5_Witness ==
    /\ Added /\ last.op = "AddVoice"
    /\ last.elem.Name = Str("hello_local") /\ last.elem.UseCache = Bool(FALSE)
    /\ \E i \in DOMAIN LastFrameNow.Voices :
          LET v == LastFrameNow.Voices[i]
          IN  /\ v.Source = VoiceSource.TTS /\ v.Text = Str("hi there")
              /\ v.UseCache = Bool(TRUE) /\ v.Name = Str("")

BuilderOps == AddOps \cup { "CreateNewFrame" }

\* C8 as claimed: no builder call raises, whatever its arguments.
C8_NoBuilderCallRaises ==
    last.op \in BuilderOps => last.outcome = "ok"

IsStr(v) == v.t = "str"
IsNum(v) == v.t = "num"
OptStr(v) == v \in { Omitted, None } \/ IsStr(v)
OptNum(v) == v = Omitted \/ IsNum(v)

\* the arguments of the last call have the types the fields are declared with
WellTyped ==
    LET c == last.args
    IN  CASE last.op = "AddVoice" -> IsStr(c.Name) /\ OptNum(c.PreGap) /\ OptNum(c.PostGap)
          [] last.op = "AddVoiceWeb" ->
                /\ OptStr(c.Url) /\ OptStr(c.Name) /\ OptNum(c.PreGap) /\ OptNum(c.PostGap)
                /\ c.UseCache = Omitted \/ c.UseCache.t = "bool"
          [] last.op = "AddVoiceTTS" ->
                /\ OptStr(c.Text) /\ OptStr(c.Name) /\ OptNum(c.PreGap) /\ OptNum(c.PostGap)
                /\ c.UseCache = Omitted \/ c.UseCache.t = "bool"
                /\ c.TTSConfig \in { Omitted, None } \/ c.TTSConfig.t = "cfg"
          [] last.op = "AddAnimation" ->
                /\ IsStr(c.Name) /\ OptStr(c.LayerName) /\ OptStr(c.Description)
                /\ OptNum(c.Duration) /\ OptNum(c.FadeLength) /\ OptNum(c.Weight)
                /\ OptNum(c.PreGap)
          [] last.op = "AddFace" ->
                IsStr(c.Name) /\ OptNum(c.Duration) /\ OptStr(c.Description)
          [] OTHER -> TRUE

\* the numbers of the last call are in the element as they were given
NumbersKept ==
    LET c == last.args
        e == last.elem
    IN  CASE last.op \in VoiceOps ->
                e.PreGap = Given(c.PreGap, Num(0)) /\ e.PostGap = Given(c.PostGap, Num(0))
          [] last.op = "AddAnimation" ->
                /\ e.Duration = Given(c.Duration, Num(0))
                /\ e.FadeLength = Given(c.FadeLength, Num(-1))
                /\ e.Weight = Given(c.Weight, Num(1))
                /\ e.PreGap = Given(c.PreGap, Num(0))
          [] last.op = "AddFace" -> e.Duration = Given(c.Duration, Num(0))
          [] OTHER -> TRUE

\* C8, amended: a builder call whose arguments have the declared types,
\* made on an AnimatedVoiceRequest or through a Response that holds one,
\* returns, with the element appended to the last frame and its numbers,
\* negative ones too, kept as given.
C8_WellTypedCallsReturn ==
    (last.op \in BuilderOps /\ last.target # ClsAvr /\ WellTyped) =>
        /\ last.outcome = "ok"
        /\ last.op \in AddOps =>
              IsLastOf(LastFrameNow, last.op, last.elem) /\ NumbersKept

\* AddAnimation with a negative Duration returned and kept the -1
C8_Witness ==
    /\ Added /\ last.op = "AddAnimation"
    /\ last.args.Duration = Num(-1) /\ last.elem.Duration = Num(-1)

---------------------------------------------------------------------------
(* Properties of SpecShared: which object a call changes. *)

\* operation op called on AnimatedVoiceRequest a itself, with the arguments c
Direct(H, a, op, c) ==
    CASE op = "AddVoice" -> AddVoice(H, a, c.Name, c.PreGap, c.PostGap, c.AsNewFrame)
      [] op = "AddVoiceWeb" ->
            AddVoiceWeb(H, a, c.Url, c.PreGap, c.PostGap, c.Name, c.UseCache, c.AsNewFrame)
      [] op = "AddVoiceTTS" ->
            AddVoiceTTS(H, a, c.Text, c.PreGap, c.PostGap, c.Name, c.TTSConfig,
                        c.UseCache, c.AsNewFrame)
      [] op = "AddAnimation" ->
            AddAnimation(H, a, c.Name, c.LayerName, c.Duration, c.FadeLength, c.Weight,
                         c.PreGap, c.Description, c.AsNewFrame)
      [] op = "AddFace" -> AddFace(H, a, c.Name, c.Duration, c.Description, c.AsNewFrame)

\* the last call went through a Response that holds an AnimatedVoiceRequest
ThroughResponse ==
    /\ last.op \in AddOps
    /\ last.via # 0
    /\ Len(last.responses[last.via].AnimatedVoiceRequests) > 0

\* the last element of the AnimatedVoiceRequests of the Response called
LastElement ==
    LET l == last.responses[last.via].AnimatedVoiceRequests IN l[Len(l)]

\* C4: an Add* call through a Response changes the last element of its
\* AnimatedVoiceRequests as the same call on that element does, changes no
\* other AnimatedVoiceRequest, and leaves every Response's list as it was.
C4_ResponseDelegation ==
    ThroughResponse =>
        LET D == Direct(last.heap, LastElement, last.op, last.args)
        IN  /\ last.outcome = D.outcome
            /\ View(Heap, LastElement) = View(D.heap, LastElement)
            /\ \A a \in DOMAIN last.heap.avrs \ { LastElement } :
                  View(Heap, a) = View(last.heap, a)
            /\ responses = last.responses
            /\ DOMAIN avrs = DOMAIN last.heap.avrs

\* a call through a Response of two AnimatedVoiceRequests whose first
\* already had a frame: the second got the element, the first kept its frame
C4_Witness ==
    /\ ThroughResponse /\ last.outcome = "ok"
    /\ Len(last.responses[last.via].AnimatedVoiceRequests) = 2
    /\ LET first == last.responses[last.via].AnimatedVoiceRequests[1]
       IN  /\ Len(View(Heap, first).AnimatedVoices) = 1
           /\ View(Heap, first) = View(last.heap, first)
    /\ Len(View(last.heap, LastElement).AnimatedVoices) = 0
    /\ Len(View(Heap, LastElement).AnimatedVoices) = 1

\* C9: a Response constructed without AnimatedVoiceRequests holds exactly
\* one AnimatedVoiceRequest, and that one has no frames, whatever was
\* called on other Responses before.
C9_NewResponseIsEmpty ==
    last.op = "Response" =>
        LET l == responses[Len(responses)].AnimatedVoiceRequests
        IN  /\ Len(l) = 1
            /\ Len(View(Heap, l[1]).AnimatedVoices) = 0

\* a second Response constructed after the first one got a frame
C9_Witness ==
    /\ last.op = "Response"
    /\ Len(responses) = 2
    /\ Len(responses[1].AnimatedVoiceRequests) = 1
    /\ Len(View(Heap, responses[1].AnimatedVoiceRequests[1]).AnimatedVoices) > 0
    /\ Len(View(Heap, responses[2].AnimatedVoiceRequests[1]).AnimatedVoices) = 0

Constructors == { "AnimatedVoiceRequest", "Response", "ResponseTwo", "ResponseEmpty" }

\* the class-level default containers are as they were when the classes were defined
DefaultsUntouched ==
    /\ voiceLists[ClsRef] = <<>>
    /\ animDicts[ClsRef] = EmptyDict
    /\ faceLists[ClsRef] = <<>>
    /\ frameLists[ClsFrames] = <<>>
    /\ Len(View(Heap, ClsAvr).AnimatedVoices) = 0

\* C10: a builder call changes no AnimatedVoiceRequest but its target, and
\* in the target no frame before the last; a construction changes no
\* AnimatedVoiceRequest and yields objects without frames; the class-level
\* defaults never change.
C10_NothingShared ==
    /\ DefaultsUntouched
    /\ last.op \in BuilderOps =>
          /\ \A a \in DOMAIN last.heap.avrs \ { last.target } :
                View(Heap, a) = View(last.heap, a)
          /\ last.target # ClsAvr =>
                \A i \in 1 .. Len(FramesBefore) :
                   (i < Len(FramesBefore) \/ Len(FramesNow) > Len(FramesBefore))
                      => FramesNow[i] = FramesBefore[i]
    /\ last.op \in Constructors =>
          /\ \A a \in DOMAIN last.heap.avrs : View(Heap, a) = View(last.heap, a)
          /\ \A a \in DOMAIN avrs \ DOMAIN last.heap.avrs :
                Len(View(Heap, a).AnimatedVoices) = 0

\* two builders, each with a frame of its own, the last call on one of them
C10_Witness ==
    /\ last.op \in AddOps /\ last.outcome = "ok"
    /\ \E a \in Avrs \ { last.target } :
          /\ Len(View(Heap, a).AnimatedVoices) = 1
          /\ Len(FramesNow) = 1
          /\ View(Heap, a).AnimatedVoices # FramesNow
          /\ View(Heap, a) = View(last.heap, a)

---------------------------------------------------------------------------
(* Properties of SpecErr: the envelope from_exception returns. *)

\* from_exception was called and returned an envelope
Returned == envelope.called /\ envelope.raised = ""

DebugOn == Truthy(Given(envelope.debug, Bool(FALSE)))

\* the text of a value: the value itself when it is a str, its digits when a number
AsText(v) == IF v.t = "str" THEN v ELSE Str(NumText(v.n))

\* C6: the envelope returned for a ChatdollKitException, or a subclass,
\* carries its error_code and message as they are, and one is returned
\* whenever both are strings; for any other exception
\* from_exception returns, with Code "E9999" and Message "Unexpected
\* error", and that is the whole Error when debug is off.
C6_ErrorMapping ==
    envelope.called =>
        IF IsChatdollKitException(envelope.ex)
        THEN /\ Returned =>
                /\ envelope.Error.Code = AsText(envelope.ex.error_code)
                /\ envelope.Error.Message = AsText(envelope.ex.message)
             /\ (IsStr(envelope.ex.error_code) /\ IsStr(envelope.ex.message)) => Returned
        ELSE /\ Returned
             /\ envelope.Error.Code = Str("E9999")
             /\ envelope.Error.Message = Str("Unexpected error")
             /\ ~DebugOn =>
                   envelope.Error = [Code |-> Str("E9999"),
                                     Message |-> Str("Unexpected error"),
                                     Detail |-> None]

\* SkillNotFoundException("E1001", "Skill not found") with debug off
C6_Witness ==
    /\ Returned
    /\ envelope.ex.cls = "SkillNotFoundException"
    /\ envelope.debug = Bool(FALSE)
    /\ envelope.Error = [Code |-> Str("E1001"), Message |-> Str("Skill not found"),
                         Detail |-> None]

\* C7: in the envelope returned, Detail is set exactly when debug is on, and
\* then it is a text that is not empty.
C7_DetailOnlyWithDebug ==
    Returned =>
        /\ envelope.Error.Detail # None <=> DebugOn
        /\ DebugOn => IsStr(envelope.Error.Detail) /\ envelope.Error.Detail.s # ""

\* debug on, for an exception whose own text is empty
C7_Witness ==
    /\ Returned
    /\ envelope.debug = Bool(TRUE)
    /\ ~IsChatdollKitException(envelope.ex) /\ envelope.ex.text = ""
    /\ envelope.Error.Detail.s # ""

---------------------------------------------------------------------------
\* the last call was an Add* operation made on an AnimatedVoiceRequest,
\* whether it returned or raised
AddRan == last.op \in AddOps /\ last.target \in Avrs

\* C11: AnimatedVoices is not empty once an Add* operation has run on the
\* AnimatedVoiceRequest.  Right after an Add* call, returned or raised, the
\* target has a frame; and no call, of any operation on any object, leaves
\* an AnimatedVoiceRequest without frames that had one before the call.
C11_FramesOnceAdded ==
    /\ AddRan => Len(Frames(Heap, last.target)) > 0
    /\ \A a \in DOMAIN last.heap.avrs :
          Len(Frames(last.heap, a)) > 0 => a \in DOMAIN avrs /\ Len(Frames(Heap, a)) > 0

\* an Add* call that raised on a builder without frames: the frame it made
\* before raising is there
C11_Witness ==
    /\ AddRan
    /\ last.outcome = "ValidationError"
    /\ Len(FramesBefore) = 0
    /\ Len(FramesNow) = 1

---------------------------------------------------------------------------
\* C12: CreateNewFrame returns, whatever the state of the builder; the
\* frames are then the frames before the call followed by one frame with
\* empty Voices, Animations and Faces, and the value returned is the number
\* of frames before the call plus one, the position of the new frame.
C12_CreateNewFrame ==
    last.op = "CreateNewFrame" =>
        /\ last.outcome = "ok"
        /\ FramesNow = Append(FramesBefore, EmptyFrame)
        /\ last.ret = Len(FramesBefore) + 1
        /\ last.ret = Len(FramesNow)
        /\ FramesNow[last.ret] = EmptyFrame

\* CreateNewFrame on a builder whose only frame holds two elements returns 2
C12_Witness ==
    /\ last.op = "CreateNewFrame"
    /\ Len(FramesBefore) = 1
    /\ FrameSize(FramesBefore[1]) = 2
    /\ last.ret = 2

---------------------------------------------------------------------------
\* C13 as claimed: from_exception returns for every exception passed to it,
\* and what it returns is an envelope whose Error carries a Code and a
\* Message, both texts, and whose success payload is unset.
C13_AlwaysAnEnvelope ==
    envelope.called =>
        /\ Returned
        /\ envelope.Error # None
        /\ IsStr(envelope.Error.Code) /\ IsStr(envelope.Error.Message)
        /\ envelope.payload = None

\* a domain error built with message=None: ApiError(Message=None) is refused
\* by pydantic and the ValidationError leaves from_exception
C13_Witness ==
    /\ envelope.called
    /\ envelope.raised = "ValidationError"
    /\ envelope.ex.cls = "SkillNotFoundException"
    /\ envelope.ex.error_code = Str("E1001")
    /\ envelope.ex.message = None
    /\ envelope.debug = Omitted

---------------------------------------------------------------------------
\* s is the beginning of t
IsPrefix(s, t) == Len(s) <= Len(t) /\ SubSeq(t, 1, Len(s)) = s

\* frame g holds what frame f holds, in the same order, and maybe more after it
FrameKept(f, g) ==
    /\ IsPrefix(f.Voices, g.Voices)
    /\ IsPrefix(f.Faces, g.Faces)
    /\ DOMAIN f.Animations \subseteq DOMAIN g.Animations
    /\ \A k \in DOMAIN f.Animations : IsPrefix(f.Animations[k], g.Animations[k])

\* the frames G are the frames F, each kept, and maybe more frames after them
FramesKept(F, G) ==
    /\ Len(F) <= Len(G)
    /\ \A i \in 1 .. Len(F) : FrameKept(F[i], G[i])

\* C14: the builder is append-only and order-preserving.  Whatever the last
\* call was and however it ended, every AnimatedVoiceRequest has the frames
\* it had before the call at the same positions, each with its voices, its
\* faces and every layer's animations as they were, new ones only after
\* them; and the element a returning Add* call added is the last of its
\* list in the last frame.
C14_AppendOnly ==
    /\ \A a \in DOMAIN last.heap.avrs :
          /\ a \in DOMAIN avrs
          /\ FramesKept(View(last.heap, a).AnimatedVoices, View(Heap, a).AnimatedVoices)
    /\ Added => IsLastOf(FramesNow[Len(FramesNow)], last.op, last.elem)

\* hello_local in frame one, then a web voice and bye in frame two
C14_Witness ==
    /\ Added
    /\ last.op = "AddVoice"
    /\ Len(FramesNow) = 2
    /\ Names(FramesNow[1].Voices) = <<"hello_local">>
    /\ Names(FramesNow[2].Voices) = <<"", "bye">>

---------------------------------------------------------------------------
\* the flags and the base layer name of an AnimatedVoiceRequest
Settings(v) ==
    [DisableBlink |-> v.DisableBlink, StopIdlingOnStart |-> v.StopIdlingOnStart,
     StartIdlingOnEnd |-> v.StartIdlingOnEnd,
     StopLayeredAnimations |-> v.StopLayeredAnimations, BaseLayerName |-> v.BaseLayerName]

\* the last call was a builder operation made on an AnimatedVoiceRequest
BuilderRan == last.op \in BuilderOps /\ last.target \in Avrs

\* the frames before the last one are the frames there were before the
\* call: all of them when the call made a frame, all but the last otherwise
EarlierFramesSame ==
    LET n == Len(FramesNow)
    IN  /\ n > 0
        /\ SubSeq(FramesNow, 1, n - 1) =
              IF n > Len(FramesBefore) THEN FramesBefore
              ELSE SubSeq(FramesBefore, 1, Len(FramesBefore) - 1)

\* the frame the last Add* call worked on, as it was when the call reached
\* it: the last frame before the call, or an empty one the call made
Reached == IF Len(FramesNow) > Len(FramesBefore) THEN EmptyFrame
           ELSE FramesBefore[Len(FramesBefore)]

\* C15: an Add* call, returning or raising, changes at most the list it
\* fills in the last frame: a voice operation leaves Animations and Faces
\* of that frame as they were, AddAnimation leaves Voices, Faces and every
\* layer but the one it resolved, AddFace leaves Voices and Animations.
\* The earlier frames and the builder's flags and BaseLayerName are as
\* before after every builder operation, CreateNewFrame included.
C15_OnlyTheTargetList ==
    BuilderRan =>
        /\ Settings(View(Heap, last.target)) = Settings(View(last.heap, last.target))
        /\ EarlierFramesSame
        /\ last.op \in VoiceOps =>
              /\ LastFrameNow.Animations = Reached.Animations
              /\ LastFrameNow.Faces = Reached.Faces
        /\ last.op = "AddFace" =>
              /\ LastFrameNow.Voices = Reached.Voices
              /\ LastFrameNow.Animations = Reached.Animations
        /\ last.op = "AddAnimation" =>
              /\ LastFrameNow.Voices = Reached.Voices
              /\ LastFrameNow.Faces = Reached.Faces
              /\ LET k == TargetLayer(last.heap, last.target, last.args.LayerName)
                 IN  /\ DOMAIN LastFrameNow.Animations \ {k} = DOMAIN Reached.Animations \ {k}
                     /\ \A x \in DOMAIN Reached.Animations \ {k} :
                           LastFrameNow.Animations[x] = Reached.Animations[x]

\* a face added to a frame that already holds a voice and an animation
C15_Witness ==
    /\ Added
    /\ last.op = "AddFace"
    /\ Len(FramesNow) = 1
    /\ Len(LastFrameNow.Voices) = 1
    /\ DOMAIN LastFrameNow.Animations # {}
    /\ Len(LastFrameNow.Faces) = 1

---------------------------------------------------------------------------
\* the calls of AddAnimation made without a LayerName
WithoutLayerName == { c \in AddAnimationArgs \cup SharedAddAnimationArgs :
                         c.LayerName \in { Omitted, None } }

\* the animations that are only ever added without a LayerName
ImplicitNames ==
    { c.Name.s : c \in WithoutLayerName }
    \ { c.Name.s : c \in (AddAnimationArgs \cup SharedAddAnimationArgs) \ WithoutLayerName }

\* C16: the animations added without a LayerName are all on one layer key,
\* the builder's BaseLayerName: in every frame of every builder, such an
\* animation is found under that key only; the call that adds one puts it
\* last under that key of the last frame; and no builder operation changes
\* the BaseLayerName the next call will resolve to.
C16_SameBaseLayer ==
    /\ \A a \in Avrs :
          LET v == View(Heap, a)
          IN  \A i \in DOMAIN v.AnimatedVoices :
                 \A k \in DOMAIN v.AnimatedVoices[i].Animations :
                    \A j \in DOMAIN v.AnimatedVoices[i].Animations[k] :
                       v.AnimatedVoices[i].Animations[k][j].Name.s \in ImplicitNames
                          => k = v.BaseLayerName
    /\ (AnimationAdded /\ last.args \in WithoutLayerName) =>
          /\ BaseLayer \in DOMAIN LastFrameNow.Animations
          /\ LET l == LastFrameNow.Animations[BaseLayer] IN l[Len(l)] = last.elem
          /\ last.elem.LayerName = BaseLayer
    /\ BuilderRan =>
          View(Heap, last.target).BaseLayerName = View(last.heap, last.target).BaseLayerName

\* on a builder whose base layer is "Body": walk, wave on "Arms", and walk
\* again into the same frame
C16_Witness ==
    /\ AnimationAdded
    /\ last.args \in WithoutLayerName
    /\ BaseLayer = Str("Body")
    /\ Len(FramesNow) = 1
    /\ DOMAIN LastFrameNow.Animations = { Str("Body"), Str("Arms") }
    /\ Names(LastFrameNow.Animations[Str("Body")]) = <<"walk", "walk">>
    /\ Names(LastFrameNow.Animations[Str("Arms")]) = <<"wave">>

---------------------------------------------------------------------------
\* the voices of every frame of every builder
AllVoices ==
    UNION { UNION { { f.Voices[i] : i \in DOMAIN f.Voices } :
                       f \in { View(Heap, a).AnimatedVoices[n] :
                                  n \in DOMAIN View(Heap, a).AnimatedVoices } } :
               a \in Avrs }

\* C17 as claimed: in every builder state, a Web voice carries a Url, a TTS
\* voice carries a Text, and a Local voice has neither.
C17_SourceCarriesItsInput ==
    \A v \in AllVoices :
       /\ v.Source = VoiceSource.Web => v.Url # None
       /\ v.Source = VoiceSource.TTS => v.Text # None
       /\ v.Source = VoiceSource.Local => v.Text = None /\ v.Url = None

\* AddVoiceWeb(None) returned and left a Web voice without a Url
C17_Witness ==
    /\ Added
    /\ last.op = "AddVoiceWeb"
    /\ last.args.Url = None
    /\ last.elem.Source = VoiceSource.Web
    /\ last.elem.Url = None
    /\ last.elem \in AllVoices

---------------------------------------------------------------------------
\* the Animations mappings of every frame of every builder
AllAnimations ==
    UNION { { View(Heap, a).AnimatedVoices[n].Animations :
                 n \in DOMAIN View(Heap, a).AnimatedVoices } : a \in Avrs }

\* C18 as claimed: in every builder state, an Animation stored under layer
\* key k has k as its LayerName, and no layer key maps to an empty sequence.
C18_LayersConsistent ==
    \A d \in AllAnimations :
       \A k \in DOMAIN d :
          /\ Len(d[k]) > 0
          /\ \A i \in DOMAIN d[k] : d[k][i].LayerName = k

\* AddAnimation("wave", LayerName="Arms", Duration=None) raised and left the
\* layer "Arms" it had just created, with nothing in it
C18_Witness ==
    /\ last.op = "AddAnimation"
    /\ last.target \in Avrs
    /\ last.outcome = "ValidationError"
    /\ last.args.LayerName = Str("Arms")
    /\ Str("Arms") \notin DOMAIN Reached.Animations
    /\ Str("Arms") \in DOMAIN LastFrameNow.Animations
    /\ LastFrameNow.Animations[Str("Arms")] = <<>>

---------------------------------------------------------------------------
\* part r of the tag of token t, empty when the tag has no such part or the
\* part is the sentinel
Rank(t, r) ==
    LET parts == Split(t.part_of_speech)
    IN  IF r <= Len(parts) /\ parts[r] # Star THEN parts[r] ELSE Empty

\* C19 as claimed: from_janome returns one WordNode per token, in token
\* order; a morphological field is the empty string when the tagger reports
\* "*" and the reported value otherwise; Part, PartDetail1, PartDetail2 and
\* PartDetail3 are the first four comma-separated parts of the tag, each the
\* empty string only when the tag has no part there or the part is "*".
C19_FromJanome ==
    words.called =>
        /\ Len(words.nodes) = Len(words.tokens)
        /\ \A i \in DOMAIN words.tokens :
              LET t == words.tokens[i]
                  w == words.nodes[i]
              IN  /\ w.Word = t.surface
                  /\ w.StemType = Unstarred(t.infl_type)
                  /\ w.StemForm = Unstarred(t.infl_form)
                  /\ w.OriginalForm = Unstarred(t.base_form)
                  /\ w.Kana = Unstarred(t.reading)
                  /\ w.Pronunciation = Unstarred(t.phonetic)
                  /\ w.Part = Rank(t, 1)
                  /\ w.PartDetail1 = Rank(t, 2)
                  /\ w.PartDetail2 = Rank(t, 3)
                  /\ w.PartDetail3 = Rank(t, 4)

\* a token tagged "n,p,h,s": its fourth part is lost, PartDetail3 is empty
C19_Witness ==
    /\ words.called
    /\ Len(words.tokens) = 1
    /\ Split(words.tokens[1].part_of_speech) = << <<"n">>, <<"p">>, <<"h">>, <<"s">> >>
    /\ words.nodes[1].PartDetail2 = <<"h">>
    /\ words.nodes[1].PartDetail3 = Empty

=============================================================================
